---- MODULE Spec2Model ----
(***************************************************************************)
(* Model of aiopocket.client.Client: the lazily built connector/session,   *)
(* the blocking login (user_login over __rpost, retrying: 3 attempts), the *)
(* dispatcher __apost (tenacity: 5 attempts, asyncio.Semaphore(10)) and    *)
(* the endpoint wrappers that project res_json['content'].                 *)
(*                                                                         *)
(* The endpoint calls are coroutines on one asyncio event loop.  They are  *)
(* identical, so the set of running calls is kept as a bag of per-call     *)
(* states.  A step of a call is one stretch of code between two points     *)
(* where the coroutine yields to the loop; user_login is synchronous       *)
(* (requests.post, time.sleep), so while a call is inside it no other call *)
(* takes a step (LoopFree).                                                *)
(***************************************************************************)
EXTENDS Naturals, Integers, FiniteSets, Sequences, Bags, TLC

\* ---------------------------------------------------------------- bounds
\* Workloads: a saturating load (more calls than permits, few faults), a few
\* concurrent calls with several faults, and one call with enough faults to
\* use up the dispatcher's attempts.
LoadCalls == 11
LoadFaults == 1
NumCalls == 2
MaxFaults == 3
SoloFaults == 5

\* ------------------------------------------------------ program constants
\* LoginUserInfo({}).token: the token is absent after construction.
NoToken == 0

\* __connector / __session = None
NoInstance == 0

\* a semaphore built without permits
SemCapacity_zero == 0

\* asyncio.Semaphore(10)
SemCapacity == 10

\* tenacity stop_after_attempt(6): a dispatcher with one attempt too many
StopAfterAttempt_six == 6

\* @aretry(stop=stop_after_attempt(5), ...) on __apost
StopAfterAttempt == 5

\* retrying with a budget of 4 login POSTs
StopMaxAttemptNumber_four == 4

\* @retry(stop_max_attempt_number=3, ...) on __rpost
StopMaxAttemptNumber == 3

\* res_json.get('message') in ['token解密失败', '非法授权']
InvalidationMessages == {"token_decrypt_failed", "illegal_auth"}

\* What the server can answer to a dispatcher POST: a JSON body with content
\* ("ok"), a JSON body without a content key ("nocontent"), a JSON body whose
\* message is an invalidation string, a body that is not JSON ("decode"), or
\* nothing at all (timeout / connection failure, "transport").
Responses == {"ok", "nocontent", "decode", "transport"} \cup InvalidationMessages

\* What the server can answer to one login POST: a JSON body holding
\* content.userInfo ("ok"), a JSON body without it ("nouserinfo"), or an
\* exception out of requests.post(...).json() ("exception").
LoginResponses == {"ok", "nouserinfo", "exception"}

VARIABLES
    login_user,   \* self.__login_user: [token |-> NoToken or a server token]
    connector,    \* self.__connector: NoInstance or the id of the TCPConnector
    session,      \* self.__session: NoInstance or the id of the connector it is built on
    closed,       \* ids of the connectors on which close() was called
    built,        \* how many connectors / sessions were ever constructed
    sem,          \* self.__sem._value: free permits
    calls,        \* bag of the states of the endpoint calls
    issued,       \* number of tokens the server has issued so far
    faults,       \* how many more non-"ok" answers the server may give
    exited        \* __aexit__ has run

vars == <<login_user, connector, session, closed, built, sem, calls, issued, faults, exited>>

\* ------------------------------------------------------------ call states
\* pc         "new"     endpoint method not called yet
\*            "login"   inside user_login (blocking), loginPosts POSTs failed
\*            "gate"    suspended in self.__sem.acquire()
\*            "post"    holds a permit, POST in progress
\*            "backoff" suspended in tenacity's wait_fixed(3) sleep
\*            "done"    endpoint method returned or raised
\* attempt    tenacity attempt number of the current / next attempt
\* posts      dispatcher POSTs issued by this call
\* hdrTok     token put in the headers built for the current attempt
\* hdrAt      attempt at which the headers held were built (0: none), standing
\*            for the clock reading that their pa signature carries
\* why        who called user_login: "headers" (line 125) / "reauth" (line 192)
\* loginPosts login POSTs issued by the current / last user_login
\* login      outcome of the last user_login of this call ("-" while it runs)
\* logins     number of user_login invocations of this call
\* resp       last answer to a dispatcher POST of this call
\* transport  attempts of this call that ended with a transport error
\* reauthTok  token carried by the POST whose invalidation made this call log in
\* ret        what __apost gave back: "json", "None", "raise"
\* out        what the endpoint method gave back
NewCall ==
    [pc |-> "new", attempt |-> 1, posts |-> 0, hdrTok |-> NoToken,
     hdrAt |-> 0,
     why |-> "-", loginPosts |-> 0, login |-> "-", logins |-> 0,
     resp |-> "-", transport |-> 0, reauthTok |-> NoToken,
     ret |-> "-", out |-> "-"]

Calls == BagToSet(calls)

\* Number of calls (with multiplicity) whose state is in the set S
RECURSIVE CountIn(_)
CountIn(S) ==
    IF S = {} THEN 0
    ELSE LET x == CHOOSE y \in S : TRUE
         IN CopiesIn(x, calls) + CountIn(S \ {x})

Replace(old, new) ==
    calls' = (calls (-) SetToBag({old})) (+) SetToBag({new})

\* ------------------------------------------------------------------ Init
\* <<number of endpoint calls made, number of faults the server may inject>>
Workloads == {<<LoadCalls, LoadFaults>>, <<NumCalls, MaxFaults>>, <<1, SoloFaults>>}

Init ==
    /\ login_user = [token |-> NoToken]
    /\ connector = NoInstance
    /\ session = NoInstance
    /\ closed = {}
    /\ built = [connector |-> 0, session |-> 0]
    /\ sem = SemCapacity
    /\ issued = 0
    /\ exited = FALSE
    /\ \E w \in Workloads :
          /\ calls = [s \in {NewCall} |-> w[1]]
          /\ faults = w[2]

\* --------------------------------------------------------------- helpers
\* LoginUserInfo(res_json['content']['userInfo']): keeps the token of userInfo
LoginUserInfo(info) == [token |-> info.token]

\* headers that never log in
NeedsLogin_never == FALSE

\* headers that log in every time they are built
NeedsLogin_always == TRUE

\* headers, line 124: `if self.__login_user.token is None`
NeedsLogin == login_user.token = NoToken

\* headers, lines 127-130: the headers carry the token held when they are
\* built and a pa signature computed from the clock at that moment
headers(s, token) == [s EXCEPT !.hdrTok = token, !.hdrAt = s.attempt]

\* a retry that hands the headers of the first attempt to the later ones
HeadersOmitted_first(s) == s.attempt = 1 \/ s.hdrAt = 0

\* line 179, `if _headers is None`: the endpoint methods call
\* self.__apost(url, params) and tenacity calls the function again with the
\* same arguments, so _headers is None at the start of every attempt
HeadersOmitted(s) == TRUE

\* a login that yields to the loop while it waits for the server
LoopFree_always == TRUE

\* The event loop runs one coroutine at a time and user_login never yields:
\* while some call is inside user_login, nothing else runs.
LoopFree == \A s \in Calls : s.pc # "login"

\* The endpoint methods are called inside the client's `async with` block
InScope == ~exited

\* a gate that admits every caller
CanAcquire_always == TRUE

\* asyncio.Semaphore: acquire() takes a permit only when one is free
CanAcquire == sem > 0

\* a connector property that builds a new instance at every access
GetConnector_fresh == built.connector + 1

\* property connector: the instance it returns (built on first use)
GetConnector == IF connector = NoInstance THEN built.connector + 1 ELSE connector

\* property session: builds the ClientSession on self.connector on first use
GetSession ==
    IF session = NoInstance
    THEN /\ session' = GetConnector
         /\ connector' = GetConnector
         /\ built' = [connector |-> IF connector = NoInstance
                                    THEN built.connector + 1
                                    ELSE built.connector,
                      session |-> built.session + 1]
    ELSE UNCHANGED <<session, connector, built>>

\* aiohttp: ClientSession.closed is "its connector is closed"
SessionClosed == session # NoInstance /\ session \in closed

\* tenacity around __apost: an attempt that raised is followed by a sleep and
\* another attempt, until the attempt budget is used up (RetryError).
Raise(s) ==
    IF s.attempt >= StopAfterAttempt
    THEN [s EXCEPT !.pc = "done", !.ret = "raise", !.out = "RetryError"]
    ELSE [s EXCEPT !.pc = "backoff", !.attempt = @ + 1]

\* an endpoint method that builds its record from whatever __apost gave back
Project_lenient(s) == [s EXCEPT !.pc = "done", !.out = "record"]

\* get_starBasicInfo / get_userInfo / get_roomInfo after `await self.__apost`:
\* StarBasicInfo(res_json['content'])
Project(s) ==
    CASE s.ret = "None" -> [s EXCEPT !.pc = "done", !.out = "TypeError"]
      [] s.ret = "json" /\ s.resp = "ok" -> [s EXCEPT !.pc = "done", !.out = "record"]
      [] OTHER -> [s EXCEPT !.pc = "done", !.out = "KeyError"]

\* `async with self.__sem:` followed by self.session.post(...), reached with
\* the headers of s built.  A free permit is taken without yielding; with no
\* free permit the call is suspended.  With a free permit and earlier waiters
\* not yet resumed, the call either takes the permit (Python < 3.11) or
\* queues behind them (Python >= 3.11).
Enter(old, s) ==
    \/ /\ CanAcquire
       /\ sem' = sem - 1
       /\ GetSession
       /\ Replace(old, [s EXCEPT !.pc = "post", !.posts = @ + 1])
    \/ /\ ~CanAcquire \/ \E w \in Calls : w.pc = "gate"
       /\ Replace(old, [s EXCEPT !.pc = "gate"])
       /\ UNCHANGED <<sem, session, connector, built>>

\* --------------------------------------------------------------- actions
\* An attempt of __apost starts (the endpoint method is called, or tenacity's
\* sleep is over): `_headers = self.headers`, which logs in first when no
\* token is held.
Attempt(s) ==
    /\ s.pc \in {"new", "backoff"}
    /\ LoopFree
    /\ InScope
    /\ IF ~HeadersOmitted(s)
       THEN Enter(s, s)
       ELSE IF NeedsLogin
       THEN /\ Replace(s, [s EXCEPT !.pc = "login", !.why = "headers",
                                    !.loginPosts = 0, !.login = "-",
                                    !.logins = @ + 1])
            /\ UNCHANGED <<sem, session, connector, built>>
       ELSE Enter(s, headers(s, login_user.token))
    /\ UNCHANGED <<login_user, closed, issued, faults, exited>>

\* One requests.post of __rpost inside user_login, and what follows it
\* without yielding: the retry of retrying, or line 174 and the rest of the
\* caller (headers -> gate, or the end of __apost after line 192).
LoginPost(s) ==
    /\ s.pc = "login"
    /\ LET n == s.loginPosts + 1 IN
       \E r \in LoginResponses :
          CASE r = "ok" ->
                 /\ issued' = issued + 1
                 /\ login_user' = LoginUserInfo([token |-> issued + 1])
                 /\ UNCHANGED faults
                 /\ LET t == [s EXCEPT !.loginPosts = n, !.login = "ok"] IN
                    IF s.why = "headers"
                    THEN Enter(s, headers(t, issued + 1))
                    ELSE /\ Replace(s, Project([t EXCEPT !.ret = "None"]))
                         /\ UNCHANGED <<sem, session, connector, built>>
            [] r = "nouserinfo" ->
                 /\ faults > 0
                 /\ faults' = faults - 1
                 /\ Replace(s, Raise([s EXCEPT !.loginPosts = n, !.login = "failed"]))
                 /\ UNCHANGED <<login_user, issued, sem, session, connector, built>>
            [] r = "exception" ->
                 /\ faults > 0
                 /\ faults' = faults - 1
                 /\ IF n < StopMaxAttemptNumber
                    THEN Replace(s, [s EXCEPT !.loginPosts = n])
                    ELSE Replace(s, Raise([s EXCEPT !.loginPosts = n, !.login = "failed"]))
                 /\ UNCHANGED <<login_user, issued, sem, session, connector, built>>
    /\ UNCHANGED <<closed, exited>>

\* A call suspended in acquire() is resumed and issues its POST
Admit(s) ==
    /\ s.pc = "gate"
    /\ LoopFree
    /\ CanAcquire
    /\ sem' = sem - 1
    /\ GetSession
    /\ Replace(s, [s EXCEPT !.pc = "post", !.posts = @ + 1])
    /\ UNCHANGED <<login_user, closed, issued, faults, exited>>

\* a gate whose permit is given back only when the POST did not raise
Release_unlessRaised(r) == IF r \in {"transport", "decode"} THEN sem ELSE sem + 1

\* leaving `async with self.__sem` (line 182) calls release() whether the
\* block ended normally or with an exception
Release(r) == sem + 1

\* The POST of a call ends: the `async with` blocks are left (the permit is
\* released) and lines 191-194 run.
PostReturn(s) ==
    /\ s.pc = "post"
    /\ LoopFree
    /\ \E r \in Responses :
          /\ sem' = Release(r)
          /\ r = "ok" \/ faults > 0
          /\ faults' = IF r = "ok" THEN faults ELSE faults - 1
          /\ CASE r = "transport" ->
                    Replace(s, Raise([s EXCEPT !.resp = r, !.transport = @ + 1]))
               [] r = "decode" ->
                    Replace(s, Raise([s EXCEPT !.resp = r]))
               [] r \in InvalidationMessages ->
                    Replace(s, [s EXCEPT !.resp = r, !.pc = "login", !.why = "reauth",
                                         !.loginPosts = 0, !.login = "-",
                                         !.logins = @ + 1,
                                         !.reauthTok = s.hdrTok])
               [] OTHER ->
                    Replace(s, Project([s EXCEPT !.resp = r, !.ret = "json"]))
    /\ UNCHANGED <<login_user, connector, session, closed, built, issued, exited>>

\* an exit that closes nothing
Close_nothing(c) == closed

\* line 50: self.connector.close()
Close(c) == closed \cup {c}

\* __aexit__: `if self.connector is not None: await self.connector.close()`.
\* The block is left when the calls made in it are over.
aexit ==
    /\ InScope
    /\ \A s \in Calls : s.pc \in {"new", "done"}
    /\ connector' = GetConnector
    /\ built' = [built EXCEPT !.connector = IF connector = NoInstance THEN @ + 1 ELSE @]
    /\ closed' = Close(GetConnector)
    /\ exited' = TRUE
    /\ UNCHANGED <<login_user, session, sem, calls, issued, faults>>

Next ==
    \/ \E s \in Calls : Attempt(s)
    \/ \E s \in Calls : LoginPost(s)
    \/ \E s \in Calls : Admit(s)
    \/ \E s \in Calls : PostReturn(s)
    \/ aexit

Spec == Init /\ [][Next]_vars

\* The loop resumes every coroutine that is ready (a call to start, a sleep
\* that is over, a waiter with a free permit), every POST is answered or
\* times out after 3 s (ClientTimeout(total=3), requests timeout=3), and so
\* does every login POST.
Fairness ==
    /\ WF_vars(\E s \in Calls : Attempt(s))
    /\ WF_vars(\E s \in Calls : LoginPost(s))
    /\ WF_vars(\E s \in Calls : Admit(s))
    /\ WF_vars(\E s \in Calls : PostReturn(s))

FairSpec == Spec /\ Fairness

\* ----------------------------------------------------------------- types
TypeOK ==
    /\ login_user.token \in 0..issued
    /\ sem \in 0..SemCapacity
    /\ BagCardinality(calls) \in {LoadCalls, NumCalls, 1}
    /\ faults \in 0..SoloFaults

\* ================================================================ claims
\* Calls that hold a permit, i.e. are inside `async with self.__sem`
InsideGate == CountIn({s \in Calls : s.pc = "post"})

\* C1: at any moment at most 10 calls are inside the admission gate (between
\* acquiring the semaphore and leaving the `async with` block); the other
\* callers are suspended at the gate.
C1_GateBound ==
    /\ InsideGate <= 10
    /\ sem = 10 - InsideGate

\* C1 witness: ten calls inside the gate and an eleventh suspended at it
C1_Witness == InsideGate = 10 /\ \E s \in Calls : s.pc = "gate"

\* C2 (as claimed): for each token, the invalidation answers to the requests
\* that carried it make at most one caller execute login(); the others reuse
\* its outcome.
C2_SingleLogin ==
    \A t \in 1..issued : CountIn({s \in Calls : s.reauthTok = t}) <= 1

\* C3 (as claimed): a call whose re-login after an invalidation answer
\* succeeded sends the request again, so it never ends with the invalidation
\* answer as its last answer, and never with anything but what the retried
\* request gave.
C3_RetriedAfterReauth ==
    \A s \in Calls :
        (s.pc = "done" /\ s.why = "reauth" /\ s.login = "ok")
            => (s.resp \notin InvalidationMessages /\ s.ret # "None")

\* C4: a call never issues a 6th POST; a call whose first k < 5 attempts
\* failed with a transport error and whose attempt k+1 got a normal decoded
\* answer returns that answer; a call whose 5 attempts all failed with a
\* transport error has ended with an error after exactly 5 POSTs.
C4_TransportRetry ==
    \A s \in Calls :
        /\ s.posts <= 5
        /\ (s.pc = "done" /\ s.transport = s.attempt - 1
               /\ s.resp \in {"ok", "nocontent"}) => s.ret = "json"
        /\ (s.pc = "done" /\ s.transport = s.attempt - 1 /\ s.resp = "ok")
               => s.out = "record"
        /\ s.transport = 5
               => (s.pc = "done" /\ s.out = "RetryError" /\ s.posts = 5)

\* C4 witness: a call that failed 5 times with a transport error and gave up
C4_Witness ==
    \E s \in Calls : s.transport = 5 /\ s.posts = 5 /\ s.out = "RetryError"

\* C5: every POST that waits at the gate or is in progress carries a token
\* that the server issued in a login that completed before.
C5_TokenPresent ==
    \A s \in Calls : s.pc \in {"gate", "post"} => s.hdrTok \in 1..issued

\* C5 witness: a call found no token, logged in, and its POST is in progress
C5_Witness ==
    \E s \in Calls : s.pc = "post" /\ s.logins = 1 /\ s.why = "headers"
                        /\ s.hdrTok = login_user.token

\* C6 (as claimed): an attempt whose answer does not decode as JSON ends the
\* call; no further attempt follows it.
C6_DecodeNotRetried ==
    \A s \in Calls : s.resp = "decode" => s.pc = "done"

\* C7 (as claimed): a login that failed inside a dispatch call ends the call
\* at once; no further attempt and no further login follow.
C7_LoginFailureEndsCall ==
    \A s \in Calls : s.login = "failed" => s.pc = "done"

\* C8 (as claimed): after an invalidation answer followed by a failed
\* re-login, the client does not hold the invalidated token.
C8_NoStaleToken ==
    \A s \in Calls :
        (s.why = "reauth" /\ s.login = "failed")
            => login_user.token # s.reauthTok

\* C9: one login() issues at most 3 login POSTs and stops at the first that
\* succeeds; the token is absent until a login POST succeeded, is replaced
\* only by a succeeding login POST (by the token of its answer), and a
\* login() whose 3 POSTs failed leaves it unchanged and ends with an error.
C9_LoginContract ==
    [][ /\ issued = 0 => login_user.token = NoToken
        /\ \A s \in Calls : s.loginPosts <= 3 /\ (s.pc = "login" => s.loginPosts < 3)
        /\ login_user' # login_user
              => /\ \E s \in Calls : s.pc = "login"
                 /\ issued' = issued + 1
                 /\ login_user'.token = issued'
        /\ issued' # issued => \A s \in BagToSet(calls') : s.pc # "login"
        /\ \A s \in Calls :
              (s.pc = "login" /\ s.loginPosts = 2 /\ issued' = issued)
                 => /\ login_user' = login_user
                    /\ \A u \in BagToSet(calls') :
                          CopiesIn(u, calls') > CopiesIn(u, calls)
                             => /\ u.pc \in {"backoff", "done"}
                                /\ u.loginPosts = 3
                                /\ u.login = "failed"
      ]_vars

\* C9 witness: a login() gave up after 3 POSTs and the token is still absent
C9_Witness ==
    \E s \in Calls : s.loginPosts = 3 /\ s.login = "failed"
                        /\ login_user.token = NoToken

\* C10: after the exit, if a connector and a session were acquired, both are
\* closed.
C10_DisposedTogether ==
    (exited /\ connector # NoInstance /\ session # NoInstance)
        => (connector \in closed /\ SessionClosed)

\* C10 witness: the exit has run on a client that had built its session
C10_Witness ==
    exited /\ built.session = 1 /\ built.connector = 1 /\ SessionClosed

\* C11 (as claimed): the exit of a client whose connector was never requested
\* (no session was ever built, so no POST was ever issued) builds no
\* connector and closes nothing.
C11_TeardownNoop ==
    (exited /\ built.session = 0)
        => (connector = NoInstance /\ built.connector = 0 /\ closed = {})

\* C12: the connector and the session are each constructed at most once;
\* whatever asks for them later gets that instance, and the session is built
\* on that connector.
C12_BuiltOnce ==
    /\ built.connector <= 1
    /\ built.session <= 1
    /\ connector = built.connector
    /\ session = NoInstance <=> built.session = 0
    /\ session # NoInstance => session = connector

\* C12 witness: two calls have issued POSTs and the exit has asked for the
\* connector again; one session and one connector exist
C12_Witness ==
    /\ exited
    /\ CountIn({s \in Calls : s.posts > 0}) >= 2
    /\ built.session = 1
    /\ session = connector

\* C13: a call whose last answer was an invalidation message never ends with
\* a record; a record is only ever built from a decoded answer with content.
C13_NoRecordFromInvalidation ==
    \A s \in Calls :
        /\ (s.pc = "done" /\ s.resp \in InvalidationMessages)
              => s.out \in {"TypeError", "RetryError"}
        /\ s.out = "record" => (s.resp = "ok" /\ s.ret = "json")

\* C13 witness: a call re-logged in after an invalidation answer and ended
\* with TypeError
C13_Witness ==
    \E s \in Calls : /\ s.pc = "done"
                     /\ s.resp \in InvalidationMessages
                     /\ s.login = "ok"
                     /\ s.out = "TypeError"

\* The call state that a step leaves / the call state that a step produces
Leaves(s) == CopiesIn(s, calls') < CopiesIn(s, calls)

Produces(u) == CopiesIn(u, calls') > CopiesIn(u, calls)

\* C15: every attempt builds its headers anew: a call that reaches the gate
\* or issues its POST holds headers built at its current attempt, and when an
\* attempt goes from its start (or from the login made for its headers) to
\* the gate, the headers carry the token held at that moment.
C15_FreshHeaders ==
    [][ /\ \A u \in BagToSet(calls') :
              u.pc \in {"gate", "post"} => u.hdrAt = u.attempt
        /\ \A s \in Calls : \A u \in BagToSet(calls') :
              ( /\ Leaves(s) /\ Produces(u)
                /\ s.pc \in {"new", "backoff"} \/ (s.pc = "login" /\ s.why = "headers")
                /\ u.pc \in {"gate", "post"} )
                 => u.hdrTok = login_user'.token
      ]_vars

\* C15 witness: a call is at its second or later POST, with headers built at
\* this attempt that carry a token issued after its first POST
C15_Witness ==
    \E s \in Calls : /\ s.pc = "post"
                     /\ s.attempt >= 2
                     /\ s.posts >= 2
                     /\ s.hdrAt = s.attempt
                     /\ s.hdrTok >= 2

\* The calls that are inside user_login
InLogin == {s \in Calls : s.pc = "login"}

\* C16: a login blocks the loop: at most one call is inside login(), and
\* while one is, every step is a step of that call (no other call is
\* admitted, gets an answer, builds headers or starts a login, and the exit
\* does not run).
C16_LoginBlocksLoop ==
    [][ /\ CountIn(InLogin) <= 1
        /\ \A u \in BagToSet(calls') : u.pc = "login" => CopiesIn(u, calls') = 1
        /\ Cardinality({u \in BagToSet(calls') : u.pc = "login"}) <= 1
        /\ \A s \in InLogin :
              /\ Leaves(s)
              /\ \A v \in Calls : Leaves(v) => v = s
              /\ exited' = exited
      ]_vars

\* C16 witness: a login is at its second or third POST while the POST of
\* another call is in progress
C16_Witness ==
    \E s \in InLogin :
        /\ s.loginPosts >= 1
        /\ \E u \in Calls : u.pc = "post"

\* Outbound network calls in progress: dispatcher POSTs and the login POST
Outbound == InsideGate + CountIn(InLogin)

\* C17: login POSTs and dispatcher POSTs in progress never number more than
\* 10 together.
C17_OutboundBound == Outbound <= 10

\* C17 witness: a re-login is in progress with 9 dispatcher POSTs in flight
\* and a caller waiting at the gate
C17_Witness ==
    /\ \E s \in InLogin : s.why = "reauth"
    /\ InsideGate = 9
    /\ \E w \in Calls : w.pc = "gate"

\* C18: under FairSpec every call that was made ends (it returned or raised)
\* and stays ended, having issued at most 5 POSTs; the only calls that never
\* end are those never made before the exit.
C18_EveryCallEnds ==
    <>[](\A s \in Calls :
            /\ s.pc = "done" \/ (exited /\ s.pc = "new")
            /\ s.pc = "done" => s.ret \in {"json", "None", "raise"}
            /\ s.posts <= 5)

\* C18 witness: all calls of a load that saturates the gate have ended, one
\* of them after more than one attempt or a login of its own
C18_Witness ==
    /\ BagCardinality(calls) > 10
    /\ \A s \in Calls : s.pc = "done"
    /\ \E s \in Calls : s.attempt >= 2 \/ s.why = "reauth"

\* C19: a call holds a permit only while its POST is in progress: when no
\* POST is in progress all 10 permits are free, whatever the calls are doing
\* (building headers, logging in, waiting out a backoff, ended by an error).
C19_NoPermitLeak ==
    (\A s \in Calls : s.pc # "post") => sem = 10

\* C19 witness: after POSTs that ended with a transport error, a decode
\* error and an invalidation answer, no POST is in progress and the permits
\* are all free
C19_Witness ==
    /\ \A s \in Calls : s.pc # "post"
    /\ sem = 10
    /\ \E s \in Calls : s.pc = "backoff" /\ s.resp \in {"transport", "decode"}
    /\ \E s \in Calls : s.pc = "login" /\ s.why = "reauth"

\* C20 (as claimed): a POST carries the client's current token at the moment
\* it is issued, also when the caller waited at the gate in between.
C20_PostCarriesCurrentToken ==
    [][ \A u \in BagToSet(calls') :
           (Produces(u) /\ u.pc = "post") => u.hdrTok = login_user'.token
      ]_vars

====
